---- MODULE Spec2Model ----
(***************************************************************************)
(* HRV analysis service: backend/main.py (the /analyze handler) and        *)
(* backend/hrv_analysis.py (detect_peaks, analyze_hrv).                    *)
(*                                                                         *)
(* One behaviour is one call of /analyze: an uploaded file and a           *)
(* start_index are chosen in Init, and the handler runs line by line.      *)
(* Python sequences are 0-indexed; a TLA+ sequence s holds Python's s[i]   *)
(* at s[i+1] (operator At).  Indices kept in the state (peak_indices) are  *)
(* Python indices.                                                         *)
(*                                                                         *)
(* Numbers: times and voltages are integers, so every difference is exact. *)
(* A mean is kept as an exact fraction num/den, a square root as the       *)
(* fraction under the root, and numpy's nan as a value of its own.         *)
(***************************************************************************)
EXTENDS Integers, Sequences, FiniteSets, TLC

\* ------------------------------------------------------------------ bounds
\* Longest uploaded table (rows).
MaxLen == 7
\* Longest table whose voltages range over all of Levels; longer tables
\* take their voltages from BinaryLevels.
MaxRichLen == 5

\* ------------------------------------------------------------ input domains
\* Voltage readings.
Levels == {0, 1, 2}
BinaryLevels == {0, 1}
\* Sampling period of a uniformly sampled recording; 0 and -1 give time
\* columns that are not strictly increasing (the code does not check).
Steps == {-1, 0, 1, 2}

TIME == "Time (s)"
VOLTAGE == "Voltage (mV)"

\* ------------------------------------------------------------ Python values
\* An unset local / absent result, and a set one.
Unset == <<>>
Some(x) == <<x>>
IsSet(o) == o # <<>>
Get(o) == o[1]

\* Python's s[i] for a 0-based index i.
At(s, i) == s[i + 1]

Min(a, b) == IF a < b THEN a ELSE b
Max(a, b) == IF a > b THEN a ELSE b

\* Python / numpy slice s[start:], start may be negative or past the end.
PySliceFrom(s, start) ==
    LET n == Len(s)
        lo == IF start < 0 THEN Max(n + start, 0) ELSE Min(start, n)
    IN  SubSeq(s, lo + 1, n)

RECURSIVE SeqSum(_)
SeqSum(s) == IF s = <<>> THEN 0 ELSE s[1] + SeqSum(Tail(s))

\* ------------------------------------------------------------------- numpy
NaN == [nan |-> TRUE, num |-> 0, den |-> 1]
Frac(n, d) == [nan |-> FALSE, num |-> n, den |-> d]

\* np.diff(x): successive differences, in order.
np_diff(x) ==
    IF Len(x) < 2 THEN <<>>
    ELSE [j \in 1..(Len(x) - 1) |-> x[j + 1] - x[j]]

\* np.square(x)
np_square(x) == [j \in 1..Len(x) |-> x[j] * x[j]]

\* np.mean(x): sum / length; nan for an empty array.
np_mean(x) ==
    IF Len(x) = 0 THEN NaN ELSE Frac(SeqSum(x), Len(x))

\* Variant: the deviations are taken from zero, not from the mean.
np_var_uncentred(x) ==
    LET n == Len(x)
    IN  IF n - 1 <= 0 THEN NaN
        ELSE Frac(SeqSum([j \in 1..n |-> x[j] * x[j]]), n - 1)

\* The variance under np.std(x, ddof=1): the sum of squared deviations from
\* the mean over (n - 1); nan when n - 1 <= 0.  With S the sum of x,
\* (x[i] - S/n)^2 = (n*x[i] - S)^2 / n^2.
np_var_ddof1(x) ==
    LET n == Len(x)
        S == SeqSum(x)
        dev2 == [j \in 1..n |-> (n * x[j] - S) * (n * x[j] - S)]
    IN  IF n - 1 <= 0 THEN NaN
        ELSE Frac(SeqSum(dev2), n * n * (n - 1))

\* np.sqrt(q): the value whose square is q; nan stays nan.
np_sqrt(q) ==
    IF q.nan THEN [nan |-> TRUE, sq_num |-> 0, sq_den |-> 1]
    ELSE [nan |-> FALSE, sq_num |-> q.num, sq_den |-> q.den]

\* ------------------------------------------------------------ hrv_analysis
\* Variant: non-strict comparisons.
IsLocalMaxNonStrict(voltage_data, i) ==
    /\ At(voltage_data, i - 1) <= At(voltage_data, i)
    /\ At(voltage_data, i) >= At(voltage_data, i + 1)

\* Variant: the right-hand neighbour is not compared.
IsLocalMaxLeftOnly(voltage_data, i) ==
    At(voltage_data, i - 1) < At(voltage_data, i)

\* The filter of detect_peaks' comprehension.
IsLocalMax(voltage_data, i) ==
    /\ At(voltage_data, i - 1) < At(voltage_data, i)
    /\ At(voltage_data, i) > At(voltage_data, i + 1)

\* [i for i in range(lo, len(v) - 1) if ...], evaluated left to right.
RECURSIVE PeaksFrom(_, _)
PeaksFrom(voltage_data, i) ==
    IF i >= Len(voltage_data) - 1 THEN <<>>
    ELSE (IF IsLocalMax(voltage_data, i) THEN <<i>> ELSE <<>>)
           \o PeaksFrom(voltage_data, i + 1)

\* Variant: range(2, len(v) - 1).
detect_peaks_from2(voltage_data) == PeaksFrom(voltage_data, 2)

detect_peaks(voltage_data) == PeaksFrom(voltage_data, 1)

\* Variant: the time column is not sliced.
TruncTimesWhole(d, s) == d[TIME]

\* times = df["Time (s)"].values[start_index:]
TruncTimes(d, s) == PySliceFrom(d[TIME], s)
\* voltages = df["Voltage (mV)"].values[start_index:]
TruncVoltages(d, s) == PySliceFrom(d[VOLTAGE], s)

\* r_peaks_time = [times[i] for i in peak_indices]
BeatTimes(t, peaks) == [j \in 1..Len(peaks) |-> At(t, peaks[j])]

\* Variants: the threshold off by one, either way.
TooFewBeatsBelow1(beats) == Len(beats) < 1
TooFewBeatsBelow3(beats) == Len(beats) < 3

\* if len(r_peaks_time) < 2: raise
TooFewBeats(beats) == Len(beats) < 2

NotEnoughMsg == "Not enough R-peaks to compute HRV."

\* Variant: rows stamped with the ending beat.
RRTableEndStamp(beats, rr) ==
    [j \in 1..Len(rr) |-> [timestamp |-> beats[j + 1], rr |-> rr[j]]]

\* rr_table: one row per interval, stamped with r_peaks_time[i].
RRTable(beats, rr) ==
    [j \in 1..Len(rr) |-> [timestamp |-> beats[j], rr |-> rr[j]]]

MeanRR(rr) == np_mean(rr)
SDNN(rr) == np_sqrt(np_var_ddof1(rr))
RMSSD(rr) == np_sqrt(np_mean(np_square(np_diff(rr))))

HrvMetrics(rr) ==
    [MeanRR |-> MeanRR(rr), SDNN |-> SDNN(rr), RMSSD |-> RMSSD(rr)]

\* analyze_hrv as a whole: what a call raises or returns.
AnalyzeHrv(d, s) ==
    LET t == TruncTimes(d, s)
        v == TruncVoltages(d, s)
        beats == BeatTimes(t, detect_peaks(v))
        rr == np_diff(beats)
    IN  IF TooFewBeats(beats)
          THEN [exc |-> Some([type |-> "ValueError", msg |-> NotEnoughMsg]),
                hrv_metrics |-> Unset, rr_table |-> Unset]
          ELSE [exc |-> Unset,
                hrv_metrics |-> Some(HrvMetrics(rr)),
                rr_table |-> Some(RRTable(beats, rr))]

\* -------------------------------------------------------------------- main
\* return {"hrvMetrics": ..., "rrTable": ...}
SuccessResponse(m, t) ==
    [status_code |-> 200, content |-> [hrvMetrics |-> m, rrTable |-> t]]

\* Variant: the message is replaced by a generic one.
ErrorResponseMasked(e) ==
    [status_code |-> 500, content |-> [error |-> "Internal Server Error"]]

\* JSONResponse(status_code=500, content={"error": str(e)})
ErrorResponse(e) ==
    [status_code |-> 500, content |-> [error |-> e.msg]]

\* ------------------------------------------------------------------ inputs
SeqsOfLen(S, n) == [1..n -> S]

\* A uniformly sampled time column, and one with a single late sample
\* (every sample after row g arrives one second later).
UniformTimes(n, dt) == [i \in 1..n |-> (i - 1) * dt]
LateTimes(n, g) == [i \in 1..n |-> (i - 1) + (IF i > g THEN 1 ELSE 0)]

TimeColumns(n) ==
    {UniformTimes(n, dt) : dt \in Steps} \cup {LateTimes(n, g) : g \in 1..(n - 1)}

Table(t, v) == (TIME :> t) @@ (VOLTAGE :> v)

\* The voltage sequence of the documented detector example.
ExampleVoltages == <<1, 3, 2, 5, 4, 5, 1>>

VoltageColumns(n) ==
    IF n <= MaxRichLen THEN SeqsOfLen(Levels, n) ELSE SeqsOfLen(BinaryLevels, n)

Tables ==
    UNION {{Table(t, v) : t \in TimeColumns(n), v \in VoltageColumns(n)} :
              n \in 0..MaxLen}
    \cup {Table(UniformTimes(Len(ExampleVoltages), 1), ExampleVoltages)}

\* An upload: text that decodes and parses into a table with both columns,
\* text whose table lacks the time column, or bytes that are not UTF-8.
Uploads ==
    {[decodable |-> TRUE, table |-> d] : d \in Tables}
    \cup {[decodable |-> TRUE, table |-> (VOLTAGE :> <<0, 1, 0, 1, 0>>)],
          [decodable |-> FALSE, table |-> (VOLTAGE :> <<>>)]}

WellFormed(f) == f.decodable /\ DOMAIN f.table = {TIME, VOLTAGE}

\* start_index is any integer form field: negative, in range, or past the end.
StartIndices(f) ==
    IF WellFormed(f) THEN -1..(Len(f.table[TIME]) + 1) ELSE {0}

\* ------------------------------------------------------------------- state
VARIABLES
    pc,             \* position of the handler
    file,           \* the uploaded file
    start_index,    \* the form field
    df,             \* the parsed table
    times,          \* analyze_hrv locals
    voltages,
    peak_indices,
    r_peaks_time,
    rr_intervals,
    rr_table,
    hrv_metrics,
    exc,            \* the exception in flight
    response        \* what the handler returned

vars == <<pc, file, start_index, df, times, voltages, peak_indices,
          r_peaks_time, rr_intervals, rr_table, hrv_metrics, exc, response>>

Init ==
    /\ file \in Uploads
    /\ start_index \in StartIndices(file)
    /\ pc = "read"
    /\ df = Unset
    /\ times = <<>>
    /\ voltages = <<>>
    /\ peak_indices = <<>>
    /\ r_peaks_time = <<>>
    /\ rr_intervals = Unset
    /\ rr_table = Unset
    /\ hrv_metrics = Unset
    /\ exc = Unset
    /\ response = Unset

Raise(type, msg) ==
    /\ exc' = Some([type |-> type, msg |-> msg])
    /\ pc' = "except"

\* main.py 16-17: read the upload, decode it, parse it.
ReadCsv ==
    /\ pc = "read"
    /\ IF file.decodable
         THEN /\ df' = Some(file.table)
              /\ pc' = "truncate"
              /\ exc' = exc
         ELSE /\ Raise("UnicodeDecodeError", "invalid start byte")
              /\ df' = df
    /\ UNCHANGED <<file, start_index, times, voltages, peak_indices,
                   r_peaks_time, rr_intervals, rr_table, hrv_metrics, response>>

\* hrv_analysis.py 9-10: select the two columns and slice them.
Truncate ==
    /\ pc = "truncate"
    /\ IF TIME \in DOMAIN Get(df)
         THEN /\ times' = TruncTimes(Get(df), start_index)
              /\ voltages' = TruncVoltages(Get(df), start_index)
              /\ pc' = "detect"
              /\ exc' = exc
         ELSE /\ Raise("KeyError", "'Time (s)'")
              /\ UNCHANGED <<times, voltages>>
    /\ UNCHANGED <<file, start_index, df, peak_indices, r_peaks_time,
                   rr_intervals, rr_table, hrv_metrics, response>>

\* hrv_analysis.py 12-13
DetectBeats ==
    /\ pc = "detect"
    /\ peak_indices' = detect_peaks(voltages)
    /\ r_peaks_time' = BeatTimes(times, peak_indices')
    /\ pc' = "check"
    /\ UNCHANGED <<file, start_index, df, times, voltages, rr_intervals,
                   rr_table, hrv_metrics, exc, response>>

\* hrv_analysis.py 15-16
CheckBeats ==
    /\ pc = "check"
    /\ IF TooFewBeats(r_peaks_time)
         THEN Raise("ValueError", NotEnoughMsg)
         ELSE pc' = "intervals" /\ exc' = exc
    /\ UNCHANGED <<file, start_index, df, times, voltages, peak_indices,
                   r_peaks_time, rr_intervals, rr_table, hrv_metrics, response>>

\* hrv_analysis.py 18-22
Intervals ==
    /\ pc = "intervals"
    /\ rr_intervals' = Some(np_diff(r_peaks_time))
    /\ rr_table' = Some(RRTable(r_peaks_time, Get(rr_intervals')))
    /\ pc' = "metrics"
    /\ UNCHANGED <<file, start_index, df, times, voltages, peak_indices,
                   r_peaks_time, hrv_metrics, exc, response>>

\* hrv_analysis.py 24-30
Metrics ==
    /\ pc = "metrics"
    /\ hrv_metrics' = Some(HrvMetrics(Get(rr_intervals)))
    /\ pc' = "return"
    /\ UNCHANGED <<file, start_index, df, times, voltages, peak_indices,
                   r_peaks_time, rr_intervals, rr_table, exc, response>>

\* main.py 18-23
Respond ==
    /\ pc = "return"
    /\ response' = Some(SuccessResponse(Get(hrv_metrics), Get(rr_table)))
    /\ pc' = "done"
    /\ UNCHANGED <<file, start_index, df, times, voltages, peak_indices,
                   r_peaks_time, rr_intervals, rr_table, hrv_metrics, exc>>

\* main.py 25-26
HandleException ==
    /\ pc = "except"
    /\ response' = Some(ErrorResponse(Get(exc)))
    /\ pc' = "done"
    /\ UNCHANGED <<file, start_index, df, times, voltages, peak_indices,
                   r_peaks_time, rr_intervals, rr_table, hrv_metrics, exc>>

Next ==
    \/ ReadCsv
    \/ Truncate
    \/ DetectBeats
    \/ CheckBeats
    \/ Intervals
    \/ Metrics
    \/ Respond
    \/ HandleException

Spec == Init /\ [][Next]_vars

TypeOK ==
    /\ pc \in {"read", "truncate", "detect", "check", "intervals", "metrics",
               "return", "except", "done"}
    /\ Len(times) = Len(voltages)
    /\ Len(r_peaks_time) = Len(peak_indices)

\* ============================================================== properties
\* detect_peaks has run in this call (lines 12-13 are behind the handler).
AfterDetect ==
    \/ pc \in {"check", "intervals", "metrics", "return"}
    \/ pc \in {"except", "done"} /\ (IsSet(exc) => Get(exc).type = "ValueError")

\* analyze_hrv has raised or returned.
AnalysisOver == pc \in {"return", "except", "done"}

InsufficientData == [type |-> "ValueError", msg |-> NotEnoughMsg]

\* The strict local maxima of v, as a set of Python indices.
StrictLocalMaxima(v) ==
    {i \in 0..(Len(v) - 1) :
        /\ 1 <= i
        /\ i <= Len(v) - 2
        /\ v[i] < v[i + 1]
        /\ v[i + 1] > v[i + 2]}

Elements(s) == {s[j] : j \in 1..Len(s)}

StrictlyAscending(s) == \A j \in 1..(Len(s) - 1) : s[j] < s[j + 1]

\* C1: detect_peaks returns, without failing, exactly the strictly ascending
\* list of the indices i with 1 <= i <= N-2, v[i-1] < v[i] and v[i] > v[i+1];
\* for N < 3 the list is empty.
C1_PeaksAreStrictLocalMaxima ==
    AfterDetect =>
        /\ Elements(peak_indices) = StrictLocalMaxima(voltages)
        /\ StrictlyAscending(peak_indices)
        /\ Len(voltages) < 3 => peak_indices = <<>>
        /\ IsSet(exc) => Get(exc) = InsufficientData

\* A run whose voltages hold two peaks and a plateau that is not one.
C1_Witness ==
    /\ pc = "check"
    /\ Len(peak_indices) >= 2
    /\ \E i \in 1..(Len(voltages) - 1) :
          voltages[i] = voltages[i + 1] /\ voltages[i] = 1

\* C2: with 0 or 1 beat times analyze_hrv raises ValueError "Not enough
\* R-peaks to compute HRV." and no interval, interval table or metrics record
\* is ever computed: the check comes first.
C2_InsufficientDataRaised ==
    /\ Len(r_peaks_time) < 2 =>
          rr_intervals = Unset /\ rr_table = Unset /\ hrv_metrics = Unset
    /\ (AfterDetect /\ pc # "check" /\ Len(r_peaks_time) < 2) =>
          /\ pc \in {"except", "done"}
          /\ exc = Some(InsufficientData)
          /\ pc = "done" => Get(response).status_code = 500

\* The whole recording holds two beats, the offset leaves one of them.
C2_Witness ==
    /\ pc = "except"
    /\ WellFormed(file)
    /\ start_index >= 1
    /\ Len(r_peaks_time) = 1
    /\ Cardinality(StrictLocalMaxima(file.table[VOLTAGE])) >= 2

\* C3: with k >= 2 beat times b, the interval table has k-1 rows in beat
\* order; row j is stamped with b[j], the starting beat, and its rr is
\* b[j+1] - b[j], beats taken in detection order.
C3_IntervalTableRows ==
    IsSet(rr_table) =>
        LET b == r_peaks_time
            T == Get(rr_table)
        IN  /\ Len(b) >= 2
            /\ Len(T) = Len(b) - 1
            /\ \A j \in 1..(Len(b) - 1) :
                  /\ T[j].timestamp = b[j]
                  /\ T[j].rr = b[j + 1] - b[j]
            /\ pc = "done" => Get(response).content.rrTable = T

\* A returned table of two rows with different intervals.
C3_Witness ==
    /\ pc = "done"
    /\ IsSet(rr_table)
    /\ Len(Get(rr_table)) = 2
    /\ Get(rr_table)[1].rr # Get(rr_table)[2].rr

\* The table with its first s rows removed.
DropRows(d, s) == [c \in DOMAIN d |-> SubSeq(d[c], s + 1, Len(d[c]))]

ValidOffset == WellFormed(file) /\ 0 <= start_index /\ start_index < Len(file.table[TIME])

\* C4: for 0 <= s < L, analyze_hrv(table, s) ends as analyze_hrv(table
\* without its first s rows, 0) does: the same failure, or the same interval
\* table and metrics; the detected peaks are those of the shortened table.
C4_OffsetIsPreSlicing ==
    (AnalysisOver /\ ValidOffset) =>
        LET pre == DropRows(file.table, start_index)
        IN  /\ [exc |-> exc, hrv_metrics |-> hrv_metrics, rr_table |-> rr_table]
                  = AnalyzeHrv(pre, 0)
            /\ Elements(peak_indices) = StrictLocalMaxima(pre[VOLTAGE])
            /\ times = pre[TIME]

\* A successful run with a positive offset that cuts a beat off.
C4_Witness ==
    /\ pc = "return"
    /\ ValidOffset
    /\ start_index >= 2
    /\ Cardinality(StrictLocalMaxima(file.table[VOLTAGE])) > Len(peak_indices)

\* C5: on a well-formed numeric table analyze_hrv fails if and only if fewer
\* than 2 strict local maxima are left after truncation, the failure is
\* InsufficientData, and otherwise a (metrics, interval table) pair comes back.
C5_FailsOnlyOnInsufficientData ==
    (AnalysisOver /\ WellFormed(file)) =>
        LET k == Cardinality(StrictLocalMaxima(
                     PySliceFrom(file.table[VOLTAGE], start_index)))
        IN  /\ IsSet(exc) <=> k < 2
            /\ IsSet(exc) => Get(exc) = InsufficientData
            /\ ~IsSet(exc) => IsSet(hrv_metrics) /\ IsSet(rr_table)

\* Exactly two beats: the call returns, with nan statistics.
C5_Witness ==
    /\ pc = "return"
    /\ WellFormed(file)
    /\ Len(r_peaks_time) = 2
    /\ Get(hrv_metrics).SDNN.nan

\* C6: every run that passes the two-beat check computes SDNN over an RR
\* sequence of length >= 2, so that the divisor N - 1 is at least 1.
C6_DivisorAtLeastOne ==
    IsSet(rr_intervals) => Len(Get(rr_intervals)) - 1 >= 1

\* C7 as stated: the example sequence yields the indices [1, 3] only.
C7_ExampleYields13 ==
    (AfterDetect /\ voltages = ExampleVoltages) => peak_indices = <<1, 3>>

\* C7: for the voltage sequence [1,3,2,5,4,5,1] detect_peaks yields the
\* indices [1, 3, 5].
C7_ExampleYields135 ==
    (AfterDetect /\ voltages = ExampleVoltages) => peak_indices = <<1, 3, 5>>

\* detect_peaks has run on the example sequence.
C7_Witness ==
    pc = "check" /\ voltages = ExampleVoltages

EquallySpaced(b) ==
    \A j \in 1..(Len(b) - 1) : b[j + 1] - b[j] = b[2] - b[1]

\* C8: with at least 3 equally spaced beats, d apart, MeanRR = d, SDNN = 0
\* and RMSSD = 0.
C8_EquallySpacedBeats ==
    (IsSet(hrv_metrics) /\ Len(r_peaks_time) >= 3 /\ EquallySpaced(r_peaks_time)) =>
        LET m == Get(hrv_metrics)
            d == r_peaks_time[2] - r_peaks_time[1]
        IN  /\ ~m.MeanRR.nan /\ m.MeanRR.num = d * m.MeanRR.den
            /\ ~m.SDNN.nan /\ m.SDNN.sq_num = 0
            /\ ~m.RMSSD.nan /\ m.RMSSD.sq_num = 0
            /\ pc = "done" => Get(response).content.hrvMetrics = m

\* Three beats, two samples apart, in a recording sampled every 2 seconds.
C8_Witness ==
    /\ pc = "done"
    /\ IsSet(hrv_metrics)
    /\ Len(r_peaks_time) >= 3
    /\ EquallySpaced(r_peaks_time)
    /\ r_peaks_time[2] - r_peaks_time[1] = 4

C10_PositiveIntervals ==
    /\ AfterDetect =>
          /\ \A j \in 1..(Len(peak_indices) - 1) :
                peak_indices[j + 1] - peak_indices[j] >= 2
          /\ Len(voltages) >= 1 =>
                Len(peak_indices) <= (Len(voltages) - 1) \div 2
    /\ (IsSet(rr_table) /\ StrictlyAscending(file.table[TIME])) =>
          LET T == Get(rr_table)
          IN  /\ \A j \in 1..Len(T) : T[j].rr > 0
              /\ \A j \in 1..(Len(T) - 1) : T[j].timestamp < T[j + 1].timestamp

\* A returned table from strictly increasing times, with as many peaks as
\* the samples can hold.
C10_Witness ==
    /\ pc = "done"
    /\ IsSet(rr_table)
    /\ Len(Get(rr_table)) >= 2
    /\ StrictlyAscending(file.table[TIME])
    /\ Len(peak_indices) = (Len(voltages) - 1) \div 2
====
